---- MODULE Spec2Model ----
(***************************************************************************)
(* Model of the streaming chat client of SSU_RAG (ChatInterface component). *)
(*                                                                         *)
(* JavaScript strings are sequences of one-character strings, so that      *)
(* indexOf, slice, trim, startsWith and JSON.parse are computed character  *)
(* by character.  The response body is a sequence of bytes: an ASCII byte  *)
(* is written as its character, the two bytes of a two-byte UTF-8 sequence *)
(* are written LeadByte and ContByte.                                      *)
(*                                                                         *)
(* sendMessage runs to its first await in one step (Send); each later step *)
(* is the resumption after an await: of fetch (FetchReject, FetchNoBody,   *)
(* FetchOk) or of reader.read() (ReadChunk, ReadDone, ReadError).  Sends   *)
(* are serialized: a send starts only when no send is running.  Queued     *)
(* setMessages updates are applied in call order, so `messages` is the     *)
(* transcript with every update made so far.  The timestamp field of a     *)
(* message is left out: nothing reads it.                                  *)
(*                                                                         *)
(* Spec explores page loads and several sends with bodies read as one      *)
(* chunk; SpecStream explores one send with richer bodies cut into chunks  *)
(* at every byte; SpecFrames explores one send with frames of every shape  *)
(* the dispatch distinguishes, read one frame per step; SpecLive explores  *)
(* several sends whose responses all end or fail.                          *)
(***************************************************************************)
EXTENDS Integers, Sequences, FiniteSets, TLC

VARIABLES
    storage,      \* localStorage['ssu_rag_session_id']: null or a string
    sessionId,    \* the component's sessionId state
    pc,           \* "unmounted", or where sendMessage is: "idle", "fetch", "read"
    messages,     \* the transcript (React state `messages`)
    isLoading,    \* React state `isLoading`
    now,          \* the last reading of Date.now()
    aiId,         \* sendMessage's local aiId
    request,      \* the body of the last fetch issued
    wire,         \* bytes of the response body the reader has not returned yet
    decoder,      \* TextDecoder state: the bytes of an incomplete sequence
    buffer,       \* sendMessage's local buffer
    served,       \* history: the frames the backend wrote into this response
    applied,      \* history: the events this request dispatched, in order
    before,       \* history: the transcript when this sendMessage was called
    opened,       \* history: the transcript when the response body was opened
    atFailure,    \* history: the transcript when the catch block was entered
    closed,       \* history: how the last send ended: "none", "end" (stream
                  \* end), "rejected", "nobody", "readfailed" (the transport
                  \* failures), "frame" (an exception left the frame loop)
    writes,       \* history: number of localStorage.setItem calls
    mounts,       \* history: number of page loads
    sends         \* history: number of non-blank sends of this page load

vars == <<storage, sessionId, pc, messages, isLoading, now, aiId, request,
          wire, decoder, buffer, served, applied, before, opened, atFailure,
          closed, writes, mounts, sends>>

---------------------------------------------------------------------------
(* Bounds of the exploration *)

MaxMounts == 2      \* page loads within one storage lifetime
MaxSends == 2       \* non-blank sends per page load
MaxClock == 1       \* largest reading of Date.now()
MaxTurnFrames == 1  \* frames of one response body, in the session exploration
MaxFrames == 2      \* frames of one response body, in the stream exploration
MaxTokens == 3      \* frames of a body of token and final frames only
MaxChunk == 2       \* largest partial chunk; a chunk may also be all the rest
MaxKindFrames == 2  \* frames of a body read frame by frame

---------------------------------------------------------------------------
(* JavaScript strings *)

Min(a, b) == IF a < b THEN a ELSE b

\* String.prototype.slice(from) and slice(0, to), 0-based as in JavaScript
SliceFrom(s, from) == SubSeq(s, from + 1, Len(s))
SliceTo(s, to) == SubSeq(s, 1, Min(to, Len(s)))

\* String.prototype.startsWith
StartsWith(s, p) == Len(s) >= Len(p) /\ SubSeq(s, 1, Len(p)) = p

\* String.prototype.indexOf: the first position of p in s, -1 when absent
IndexOf(s, p) ==
    LET hits == {i \in 0..(Len(s) - Len(p)) : SubSeq(s, i + 1, i + Len(p)) = p}
    IN  IF hits = {} THEN -1 ELSE CHOOSE i \in hits : \A j \in hits : i <= j

WhiteSpace == {" ", "\n", "\t", "\r"}

RECURSIVE TrimStart(_)
TrimStart(s) ==
    IF s # <<>> /\ s[1] \in WhiteSpace THEN TrimStart(Tail(s)) ELSE s

RECURSIVE TrimEnd(_)
TrimEnd(s) ==
    IF s # <<>> /\ s[Len(s)] \in WhiteSpace
    THEN TrimEnd(SubSeq(s, 1, Len(s) - 1)) ELSE s

\* String.prototype.trim
Trim(s) == TrimEnd(TrimStart(s))

---------------------------------------------------------------------------
(* JavaScript values, as JSON.parse produces them *)

Undefined == [t |-> "undefined", v |-> <<>>]
Null == [t |-> "null", v |-> <<>>]
JStr(s) == [t |-> "string", v |-> s]
JNum(n) == [t |-> "number", v |-> <<n>>]
JArr(a) == [t |-> "array", v |-> a]
JObj(m) == [t |-> "object", v |-> m]     \* m: sequence of <<key, value>>

\* ToBoolean: the test of `if (x)`, `x && ...` and `x || ...`
Truthy(x) ==
    CASE x.t = "string" -> x.v # <<>>
      [] x.t = "number" -> x.v # <<0>>
      [] x.t \in {"array", "object"} -> TRUE
      [] OTHER -> FALSE

\* x === 'literal'
IsStr(x, s) == x.t = "string" /\ x.v = s

\* Property read evt.key: the last member of that name, undefined when the
\* value has no such property.  A read on null or undefined throws:
\* ReadThrows(x) says so.
RECURSIVE Lookup(_, _, _)
Lookup(m, key, i) ==
    IF i = 0 THEN Undefined
    ELSE IF m[i][1] = key THEN m[i][2]
    ELSE Lookup(m, key, i - 1)

Get(x, key) == IF x.t = "object" THEN Lookup(x.v, key, Len(x.v)) ELSE Undefined

ReadThrows(x) == x.t \in {"null", "undefined"}

---------------------------------------------------------------------------
(* JSON.parse, for the JSON built of objects, arrays, strings, non-negative *)
(* integers and null.  A result is [ok, v, i]: i is the next position.      *)

Fail == [ok |-> FALSE, v |-> Undefined, i |-> 0]
Ok(val, next) == [ok |-> TRUE, v |-> val, i |-> next]

Digits == <<"0", "1", "2", "3", "4", "5", "6", "7", "8", "9">>
IsDigit(c) == \E d \in 1..10 : Digits[d] = c
DigitValue(c) == (CHOOSE d \in 1..10 : Digits[d] = c) - 1

At(s, i) == IF i >= 1 /\ i <= Len(s) THEN s[i] ELSE "EOF"

RECURSIVE SkipWs(_, _)
SkipWs(s, i) == IF At(s, i) \in WhiteSpace THEN SkipWs(s, i + 1) ELSE i

\* the characters of a string literal, from the one after the opening quote
RECURSIVE ScanString(_, _, _)
ScanString(s, i, acc) ==
    LET c == At(s, i) IN
    IF c = "EOF" \/ c \in {"\n", "\t", "\r"} THEN Fail
    ELSE IF c = "\"" THEN Ok(JStr(acc), i + 1)
    ELSE IF c = "\\" THEN
        LET e == At(s, i + 1) IN
        IF e \in {"\"", "\\", "/"} THEN ScanString(s, i + 2, Append(acc, e))
        ELSE IF e = "n" THEN ScanString(s, i + 2, Append(acc, "\n"))
        ELSE Fail
    ELSE ScanString(s, i + 1, Append(acc, c))

RECURSIVE ScanNumber(_, _, _)
ScanNumber(s, i, acc) ==
    IF IsDigit(At(s, i)) THEN ScanNumber(s, i + 1, acc * 10 + DigitValue(s[i]))
    ELSE Ok(JNum(acc), i)

NullText == <<"n", "u", "l", "l">>

RECURSIVE ParseValue(_, _)
RECURSIVE ParseMembers(_, _, _)
RECURSIVE ParseElements(_, _, _)

ParseValue(s, i) ==
    LET j == SkipWs(s, i)
        c == At(s, j)
    IN  IF c = "{" THEN
            IF At(s, SkipWs(s, j + 1)) = "}"
            THEN Ok(JObj(<<>>), SkipWs(s, j + 1) + 1)
            ELSE ParseMembers(s, j + 1, <<>>)
        ELSE IF c = "[" THEN
            IF At(s, SkipWs(s, j + 1)) = "]"
            THEN Ok(JArr(<<>>), SkipWs(s, j + 1) + 1)
            ELSE ParseElements(s, j + 1, <<>>)
        ELSE IF c = "\"" THEN ScanString(s, j + 1, <<>>)
        ELSE IF IsDigit(c) THEN
            \* no leading zero before another digit
            IF c = "0" /\ IsDigit(At(s, j + 1)) THEN Fail ELSE ScanNumber(s, j, 0)
        ELSE IF SubSeq(s, j, Min(j + 3, Len(s))) = NullText THEN Ok(Null, j + 4)
        ELSE Fail

ParseMembers(s, i, acc) ==
    LET j == SkipWs(s, i) IN
    IF At(s, j) # "\"" THEN Fail
    ELSE
        LET key == ScanString(s, j + 1, <<>>) IN
        IF ~key.ok THEN Fail
        ELSE IF At(s, SkipWs(s, key.i)) # ":" THEN Fail
        ELSE
            LET val == ParseValue(s, SkipWs(s, key.i) + 1) IN
            IF ~val.ok THEN Fail
            ELSE
                LET k == SkipWs(s, val.i)
                    more == Append(acc, <<key.v.v, val.v>>)
                IN  IF At(s, k) = "," THEN ParseMembers(s, k + 1, more)
                    ELSE IF At(s, k) = "}" THEN Ok(JObj(more), k + 1)
                    ELSE Fail

ParseElements(s, i, acc) ==
    LET val == ParseValue(s, i) IN
    IF ~val.ok THEN Fail
    ELSE
        LET k == SkipWs(s, val.i)
            more == Append(acc, val.v)
        IN  IF At(s, k) = "," THEN ParseElements(s, k + 1, more)
            ELSE IF At(s, k) = "]" THEN Ok(JArr(more), k + 1)
            ELSE Fail

\* JSON.parse(text): ok = FALSE stands for the SyntaxError it throws
JSONParse(text) ==
    LET r == ParseValue(text, 1) IN
    IF r.ok /\ SkipWs(text, r.i) > Len(text) THEN r ELSE Fail

---------------------------------------------------------------------------
(* The response body: text the backend writes, UTF-8 encoded *)

\* The character U+00E9, its two UTF-8 bytes, and the replacement character
\* a decoder emits for a malformed sequence
EAcute == "U+00E9"
LeadByte == "0xC3"
ContByte == "0xA9"
Replacement == "U+FFFD"

EncodeChar(c) == IF c = EAcute THEN <<LeadByte, ContByte>> ELSE <<c>>

\* the bytes of the characters of s, in order (by halves: a long text does
\* not nest deeply)
RECURSIVE UTF8Encode(_)
UTF8Encode(s) ==
    IF s = <<>> THEN <<>>
    ELSE IF Len(s) = 1 THEN EncodeChar(s[1])
    ELSE LET h == Len(s) \div 2
         IN  UTF8Encode(SubSeq(s, 1, h)) \o UTF8Encode(SubSeq(s, h + 1, Len(s)))

\* JSON text of a string: quotes, with ", \ and newline escaped
RECURSIVE EscapeChars(_)
EscapeChars(s) ==
    IF s = <<>> THEN <<>>
    ELSE (CASE Head(s) = "\"" -> <<"\\", "\"">>
            [] Head(s) = "\\" -> <<"\\", "\\">>
            [] Head(s) = "\n" -> <<"\\", "n">>
            [] OTHER -> <<Head(s)>>)
         \o EscapeChars(Tail(s))

Quote(s) == <<"\"">> \o EscapeChars(s) \o <<"\"">>

\* JSON text of a value (compact separators)
RECURSIVE Stringify(_)
RECURSIVE StringifyMembers(_, _)
RECURSIVE StringifyElements(_, _)

Stringify(x) ==
    CASE x.t = "string" -> Quote(x.v)
      [] x.t = "number" -> <<Digits[x.v[1] + 1]>>
      [] x.t = "array" -> <<"[">> \o StringifyElements(x.v, 1) \o <<"]">>
      [] x.t = "object" -> <<"{">> \o StringifyMembers(x.v, 1) \o <<"}">>
      [] OTHER -> NullText

StringifyMembers(m, i) ==
    IF i > Len(m) THEN <<>>
    ELSE (IF i > 1 THEN <<",">> ELSE <<>>)
         \o Quote(m[i][1]) \o <<":">> \o Stringify(m[i][2])
         \o StringifyMembers(m, i + 1)

StringifyElements(a, i) ==
    IF i > Len(a) THEN <<>>
    ELSE (IF i > 1 THEN <<",">> ELSE <<>>)
         \o Stringify(a[i]) \o StringifyElements(a, i + 1)

DataMarker == <<"d", "a", "t", "a", ":", " ">>
Boundary == <<"\n", "\n">>

\* A frame the backend writes: the lines before the data line, the event, the
\* number of characters missing at the end of its JSON text (0: well-formed),
\* the lines after the data line, and whether the blank line that ends the
\* frame was written.
Frame(before_, evt, cut, after_, term) ==
    [before |-> before_, evt |-> evt, cut |-> cut, after |-> after_, term |-> term]

PayloadText(f) ==
    LET json == Stringify(f.evt) IN SubSeq(json, 1, Len(json) - f.cut)

FrameText(f) ==
    f.before \o DataMarker \o PayloadText(f) \o f.after
    \o (IF f.term THEN Boundary ELSE <<>>)

RECURSIVE StreamText(_)
StreamText(fs) ==
    IF fs = <<>> THEN <<>> ELSE FrameText(Head(fs)) \o StreamText(Tail(fs))

StreamBytes(fs) == UTF8Encode(StreamText(fs))

\* Property names and type tags of the protocol
KType == <<"t", "y", "p", "e">>
KContent == <<"c", "o", "n", "t", "e", "n", "t">>
KAnswer == <<"a", "n", "s", "w", "e", "r">>
KSources == <<"s", "o", "u", "r", "c", "e", "s">>
TToken == <<"t", "o", "k", "e", "n">>
TMeta == <<"m", "e", "t", "a">>
TFinal == <<"f", "i", "n", "a", "l">>

TokenEvt(c) == JObj(<< <<KType, JStr(TToken)>>, <<KContent, JStr(c)>> >>)
MetaEvt(srcs) == JObj(<< <<KType, JStr(TMeta)>>, <<KSources, srcs>> >>)
FinalEvt(a) == JObj(<< <<KType, JStr(TFinal)>>, <<KAnswer, JStr(a)>> >>)

TokA == Frame(<<>>, TokenEvt(<<"a">>), 0, <<>>, TRUE)
TokE == Frame(<<>>, TokenEvt(<<EAcute>>), 0, <<>>, TRUE)
MetaS == Frame(<<>>, MetaEvt(JArr(<<JStr(<<"s">>)>>)), 0, <<>>, TRUE)
FinalZ == Frame(<<>>, FinalEvt(<<"z">>), 0, <<>>, TRUE)
\* a token frame whose JSON text lacks its closing brace
BadTok == Frame(<<>>, TokenEvt(<<"a">>), 1, <<>>, TRUE)
\* a token frame the stream ends in the middle of: no blank line after it
OpenTok == Frame(<<>>, TokenEvt(<<"a">>), 0, <<>>, FALSE)

\* Events of the other shapes the dispatch distinguishes
MetaT == Frame(<<>>, MetaEvt(JArr(<<JStr(<<"t">>)>>)), 0, <<>>, TRUE)
MetaNone == Frame(<<>>, JObj(<< <<KType, JStr(TMeta)>> >>), 0, <<>>, TRUE)
FinalYT ==
    Frame(<<>>,
          JObj(<< <<KType, JStr(TFinal)>>, <<KAnswer, JStr(<<"y">>)>>,
                  <<KSources, JArr(<<JStr(<<"t">>)>>)>> >>),
          0, <<>>, TRUE)
Ping ==
    Frame(<<>>,
          JObj(<< <<KType, JStr(<<"p", "i", "n", "g">>)>>,
                  <<KContent, JStr(<<"a">>)>> >>),
          0, <<>>, TRUE)
TokEmpty == Frame(<<>>, TokenEvt(<<>>), 0, <<>>, TRUE)
FinalEmpty == Frame(<<>>, FinalEvt(<<>>), 0, <<>>, TRUE)
\* the token frame "a" with an event: line before its data line
EventTok ==
    Frame(<<"e", "v", "e", "n", "t", ":", " ", "m", "\n">>,
          TokenEvt(<<"a">>), 0, <<>>, TRUE)
\* the token frame "a" with an id: line after its data line
TokId ==
    Frame(<<>>, TokenEvt(<<"a">>), 0, <<"\n", "i", "d", ":", " ", "1">>, TRUE)

WellFormed(f) == f.cut = 0 /\ f.term

\* Sequences of at most n frames of U
RECURSIVE SeqsUpTo(_, _)
SeqsUpTo(U, n) ==
    IF n = 0 THEN {<<>>}
    ELSE LET shorter == SeqsUpTo(U, n - 1)
         IN  shorter \cup {Append(q, f) : q \in shorter, f \in U}

\* Response bodies: only the last frame of a body can lack its boundary
Bodies(U, n) ==
    {fs \in SeqsUpTo(U, n) : \A i \in 1..Len(fs) : i < Len(fs) => fs[i].term}

---------------------------------------------------------------------------
(* TextDecoder('utf-8').decode(chunk, {stream: true}) *)
(* pending holds the lead byte of a sequence the chunk ended inside of.    *)

\* One byte through the decoder: the text it emits and the new pending bytes
DecodeByte(pending, b) ==
    LET flushed == IF pending # <<>> /\ b # ContByte THEN <<Replacement>> ELSE <<>>
    IN  IF pending # <<>> /\ b = ContByte THEN [text |-> <<EAcute>>, pending |-> <<>>]
        ELSE IF b = LeadByte THEN [text |-> flushed, pending |-> <<b>>]
        ELSE IF b = ContByte THEN [text |-> <<Replacement>>, pending |-> <<>>]
        ELSE [text |-> Append(flushed, b), pending |-> <<>>]

\* The bytes through the decoder one after the other (by halves: the second
\* half starts from the pending bytes the first half leaves)
RECURSIVE DecodeBytes(_, _)
DecodeBytes(pending, bytes) ==
    IF bytes = <<>> THEN [text |-> <<>>, pending |-> pending]
    ELSE IF Len(bytes) = 1 THEN DecodeByte(pending, bytes[1])
    ELSE LET h == Len(bytes) \div 2
             l == DecodeBytes(pending, SubSeq(bytes, 1, h))
             r == DecodeBytes(l.pending, SubSeq(bytes, h + 1, Len(bytes)))
         IN  [text |-> l.text \o r.text, pending |-> r.pending]

\* decode(chunk) without {stream: true}: an incomplete sequence at the end of
\* the chunk is flushed as a replacement character
DecodeFlushing(pending, bytes) ==
    LET d == DecodeBytes(<<>>, bytes) IN
    [text |-> IF d.pending # <<>> THEN Append(d.text, Replacement) ELSE d.text,
     pending |-> <<>>]

Decode(pending, bytes) == DecodeBytes(pending, bytes)

---------------------------------------------------------------------------
(* The transcript and the frame handlers of sendMessage *)

ErrorText == <<"error-text">>   \* stands for the fixed Korean error string

UserMessage(id, text) ==
    [id |-> id, text |-> text, role |-> "user", sources |-> Undefined]

Placeholder(id) ==
    [id |-> id, text |-> <<>>, role |-> "assistant", sources |-> JArr(<<>>)]

ErrorMessage(id) ==
    [id |-> id, text |-> ErrorText, role |-> "assistant", sources |-> Undefined]

\* A history capped to the last two messages
MinimalHistoryCapped(all) ==
    LET from == IF Len(all) > 2 THEN Len(all) - 1 ELSE 1 IN
    [i \in 1..(Len(all) - from + 1) |->
        [role |-> all[from + i - 1].role, content |-> all[from + i - 1].text]]

\* allMessages.map(m => ({ role: m.role, content: m.text }))
MinimalHistory(all) ==
    [i \in 1..Len(all) |-> [role |-> all[i].role, content |-> all[i].text]]

\* The placeholder not appended at send time
WithoutPlaceholder(all, id) == all

\* setMessages(prev => [...prev, placeholder]) on top of setMessages(allMessages)
WithPlaceholder(all, id) == Append(all, Placeholder(id))

\* A token put in front of the text instead of after it
ApplyTokenPrepend(msgs, id, token) ==
    [i \in 1..Len(msgs) |->
        IF msgs[i].id = id
        THEN [msgs[i] EXCEPT !.text = token.v \o msgs[i].text]
        ELSE msgs[i]]

\* A token put in the place of the text instead of after it
ApplyTokenReplace(msgs, id, token) ==
    [i \in 1..Len(msgs) |->
        IF msgs[i].id = id
        THEN [msgs[i] EXCEPT !.text = token.v]
        ELSE msgs[i]]

\* applyToken: content is a string in every frame the backend writes
ApplyToken(msgs, id, token) ==
    [i \in 1..Len(msgs) |->
        IF msgs[i].id = id
        THEN [msgs[i] EXCEPT !.text = msgs[i].text \o token.v]
        ELSE msgs[i]]

\* The sources of a meta event added to those the message already has
ApplyMetaMerge(msgs, id, meta) ==
    IF Truthy(Get(meta, KSources))
    THEN [i \in 1..Len(msgs) |->
            IF msgs[i].id = id
            THEN [msgs[i] EXCEPT
                    !.sources = JArr(msgs[i].sources.v \o Get(meta, KSources).v)]
            ELSE msgs[i]]
    ELSE msgs

\* applyMeta: sources replaced when the event has some
ApplyMeta(msgs, id, meta) ==
    IF Truthy(Get(meta, KSources))
    THEN [i \in 1..Len(msgs) |->
            IF msgs[i].id = id
            THEN [msgs[i] EXCEPT !.sources = Get(meta, KSources)]
            ELSE msgs[i]]
    ELSE msgs

\* A final answer appended to the accumulated text instead of replacing it
ApplyFinalAppend(msgs, id, evt) ==
    [i \in 1..Len(msgs) |->
        IF msgs[i].id = id
        THEN [msgs[i] EXCEPT
                !.text = msgs[i].text \o Get(evt, KAnswer).v,
                !.sources = IF Truthy(Get(evt, KSources))
                            THEN Get(evt, KSources) ELSE msgs[i].sources]
        ELSE msgs[i]]

\* A final answer that always takes the sources of its event
ApplyFinalOwnSources(msgs, id, evt) ==
    [i \in 1..Len(msgs) |->
        IF msgs[i].id = id
        THEN [msgs[i] EXCEPT
                !.text = Get(evt, KAnswer).v,
                !.sources = Get(evt, KSources)]
        ELSE msgs[i]]

\* the final branch: text replaced by the answer, sources only if provided
ApplyFinal(msgs, id, evt) ==
    [i \in 1..Len(msgs) |->
        IF msgs[i].id = id
        THEN [msgs[i] EXCEPT
                !.text = Get(evt, KAnswer).v,
                !.sources = IF Truthy(Get(evt, KSources))
                            THEN Get(evt, KSources) ELSE msgs[i].sources]
        ELSE msgs[i]]

\* The state the frame loop threads: the transcript, the events dispatched,
\* and whether an exception left the loop.
LoopState(msgs, done, threw) == [messages |-> msgs, applied |-> done, threw |-> threw]

Did(st, op, evt, msgs) ==
    LoopState(msgs, Append(st.applied, [op |-> op, evt |-> evt]), st.threw)

\* The exception of a frame not caught inside the loop
OnFrameErrorRethrow(st) == LoopState(st.messages, st.applied, TRUE)

\* catch (e) { /* ignore */ } around JSON.parse and the dispatch
OnFrameError(st) == st

\* A chain that takes every event with content for a token, whatever its type
DispatchAnyType(st, id, evt) ==
    IF ReadThrows(evt) THEN OnFrameError(st)
    ELSE IF Truthy(Get(evt, KContent))
        THEN Did(st, "token", evt, ApplyToken(st.messages, id, Get(evt, KContent)))
    ELSE IF IsStr(Get(evt, KType), TMeta)
        THEN Did(st, "meta", evt, ApplyMeta(st.messages, id, evt))
    ELSE IF IsStr(Get(evt, KType), TFinal) /\ Truthy(Get(evt, KAnswer))
        THEN Did(st, "final", evt, ApplyFinal(st.messages, id, evt))
    ELSE st

\* the if / else-if chain on evt.type
Dispatch(st, id, evt) ==
    IF ReadThrows(evt) THEN OnFrameError(st)
    ELSE IF IsStr(Get(evt, KType), TToken) /\ Truthy(Get(evt, KContent))
        THEN Did(st, "token", evt, ApplyToken(st.messages, id, Get(evt, KContent)))
    ELSE IF IsStr(Get(evt, KType), TMeta)
        THEN Did(st, "meta", evt, ApplyMeta(st.messages, id, evt))
    ELSE IF IsStr(Get(evt, KType), TFinal) /\ Truthy(Get(evt, KAnswer))
        THEN Did(st, "final", evt, ApplyFinal(st.messages, id, evt))
    ELSE st

\* one frame: only raw text that starts with 'data: ' is parsed
HandleFrame(st, id, raw) ==
    IF StartsWith(raw, DataMarker)
    THEN LET r == JSONParse(SliceFrom(raw, Len(DataMarker)))
         IN  IF r.ok THEN Dispatch(st, id, r.v) ELSE OnFrameError(st)
    ELSE st

\* A loop that also takes what is left in the buffer for a frame
RECURSIVE DrainFlushing(_, _, _)
DrainFlushing(buf, st, id) ==
    LET idx == IndexOf(buf, Boundary) IN
    IF st.threw THEN [buffer |-> buf, st |-> st]
    ELSE IF idx = -1
        THEN [buffer |-> <<>>, st |-> HandleFrame(st, id, Trim(buf))]
    ELSE
        LET raw == Trim(SliceTo(buf, idx))
            rest == SliceFrom(buf, idx + 2)
        IN  IF raw = <<>> THEN DrainFlushing(rest, st, id)
            ELSE DrainFlushing(rest, HandleFrame(st, id, raw), id)

\* while ((idx = buffer.indexOf('\n\n')) !== -1) { ... }
RECURSIVE Drain(_, _, _)
Drain(buf, st, id) ==
    LET idx == IndexOf(buf, Boundary) IN
    IF idx = -1 \/ st.threw THEN [buffer |-> buf, st |-> st]
    ELSE
        LET raw == Trim(SliceTo(buf, idx))
            rest == SliceFrom(buf, idx + 2)
        IN  IF raw = <<>> THEN Drain(rest, st, id)
            ELSE Drain(rest, HandleFrame(st, id, raw), id)

\* One pass of the read loop over a chunk, from decoder state dec and buffer
\* buf: decode, append to the buffer, take the complete frames out.
ReadStep(dec, buf, st, id, chunk) ==
    LET d == Decode(dec, chunk)
        r == Drain(buf \o d.text, st, id)
    IN  [decoder |-> d.pending, buffer |-> r.buffer, st |-> r.st]

---------------------------------------------------------------------------
(* Session id: the useState initializer of sessionId *)

Base36 == <<"0", "1", "2", "3", "4", "5", "6", "7", "8", "9", "a", "b", "c",
            "d", "e", "f", "g", "h", "i", "j", "k", "l", "m", "n", "o", "p",
            "q", "r", "s", "t", "u", "v", "w", "x", "y", "z">>

\* Math.random() returns r/36 here, 0 <= r < 36; (r/36).toString(36)
ToString36(r) == IF r = 0 THEN <<"0">> ELSE <<"0", ".", Base36[r + 1]>>

\* window.crypto.randomUUID(), when the browser has it
UUIDs == {<<"u", "u", "i", "d">>}
RandomOutcomes == {0, 18}

NewSessionId(hasUUID, uuid, r) ==
    IF hasUUID THEN uuid ELSE SliceFrom(ToString36(r), 2)

\* What the initializer returns and what it leaves in storage
InitSessionId(stored, hasUUID, uuid, r) ==
    IF Truthy(stored)
    THEN [id |-> stored, storage |-> stored, wrote |-> FALSE]
    ELSE [id |-> JStr(NewSessionId(hasUUID, uuid, r)),
          storage |-> JStr(NewSessionId(hasUUID, uuid, r)),
          wrote |-> TRUE]

---------------------------------------------------------------------------
(* Actions *)

Clock == now..MaxClock      \* the readings Date.now() can return next

NoRequest == [query |-> <<>>, limit |-> 0, messages |-> <<>>, session_id |-> Undefined]

Init ==
    /\ storage = Null
    /\ sessionId = Undefined
    /\ pc = "unmounted"
    /\ messages = <<>>
    /\ isLoading = FALSE
    /\ now \in 0..MaxClock
    /\ aiId = 0
    /\ request = NoRequest
    /\ wire = <<>>
    /\ decoder = <<>>
    /\ buffer = <<>>
    /\ served = <<>>
    /\ applied = <<>>
    /\ before = <<>>
    /\ opened = <<>>
    /\ atFailure = <<>>
    /\ closed = "none"
    /\ writes = 0
    /\ mounts = 0
    /\ sends = 0

\* A page load: the component mounts with fresh state; storage survives
Mount(hasUUID, uuid, r) ==
    /\ mounts < MaxMounts
    /\ LET s == InitSessionId(storage, hasUUID, uuid, r) IN
        /\ sessionId' = s.id
        /\ storage' = s.storage
        /\ writes' = IF s.wrote THEN writes + 1 ELSE writes
    /\ mounts' = mounts + 1
    /\ pc' = "idle"
    /\ messages' = <<>>
    /\ isLoading' = FALSE
    /\ aiId' = 0
    /\ request' = NoRequest
    /\ wire' = <<>>
    /\ decoder' = <<>>
    /\ buffer' = <<>>
    /\ served' = <<>>
    /\ applied' = <<>>
    /\ before' = <<>>
    /\ opened' = <<>>
    /\ atFailure' = <<>>
    /\ closed' = "none"
    /\ sends' = 0
    /\ UNCHANGED now

\* sendMessage(text) with !text.trim(): returns at once
SendBlank(text) ==
    /\ pc = "idle"
    /\ Trim(text) = <<>>
    /\ UNCHANGED vars

\* sendMessage(text) up to the await of fetch; t1 and t2 are the two readings
\* of Date.now()
Send(text, t1, t2) ==
    /\ pc = "idle"
    /\ sends < MaxSends
    /\ Trim(text) # <<>>
    /\ t1 \in Clock /\ t2 \in t1..MaxClock
    /\ LET allMessages == Append(messages, UserMessage(t1, text)) IN
        /\ messages' = WithPlaceholder(allMessages, t2 + 1)
        /\ request' = [query |-> text, limit |-> 5,
                       messages |-> MinimalHistory(allMessages),
                       session_id |-> sessionId]
    /\ aiId' = t2 + 1
    /\ isLoading' = TRUE
    /\ now' = t2
    /\ pc' = "fetch"
    /\ before' = messages
    /\ opened' = <<>>
    /\ atFailure' = <<>>
    /\ closed' = "none"
    /\ sends' = sends + 1
    /\ wire' = <<>> /\ decoder' = <<>> /\ buffer' = <<>>
    /\ served' = <<>> /\ applied' = <<>>
    /\ UNCHANGED <<storage, sessionId, writes, mounts>>

\* The error message put in the place of the last message
CatchReplacingLast(msgs, t) ==
    Append(SubSeq(msgs, 1, Len(msgs) - 1), ErrorMessage(t + 1))

\* The error message put in front of the transcript
CatchPrepending(msgs, t) == <<ErrorMessage(t + 1)>> \o msgs

\* The transcript the catch block leaves: one error message after msgs
CatchTranscript(msgs, t) == Append(msgs, ErrorMessage(t + 1))

\* A catch block with no finally after it: the loading flag stays as it was
CatchKeepsLoading(msgs, t, how) ==
    /\ t \in Clock
    /\ messages' = CatchTranscript(msgs, t)
    /\ atFailure' = msgs
    /\ now' = t
    /\ closed' = how
    /\ isLoading' = isLoading
    /\ pc' = "idle"

\* catch (error) { ... } finally { setIsLoading(false) }, entered with the
\* transcript msgs; t is the reading of Date.now(), how is what threw
Catch(msgs, t, how) ==
    /\ t \in Clock
    /\ messages' = CatchTranscript(msgs, t)
    /\ atFailure' = msgs
    /\ now' = t
    /\ closed' = how
    /\ isLoading' = FALSE
    /\ pc' = "idle"

\* await fetch(...) rejects
FetchReject(t) ==
    /\ pc = "fetch"
    /\ Catch(messages, t, "rejected")
    /\ UNCHANGED <<storage, sessionId, aiId, request, wire, decoder, buffer,
                   served, applied, before, opened, writes, mounts, sends>>

\* if (!res.body) throw new Error(...)
FetchNoBody(t) ==
    /\ pc = "fetch"
    /\ Catch(messages, t, "nobody")
    /\ UNCHANGED <<storage, sessionId, aiId, request, wire, decoder, buffer,
                   served, applied, before, opened, writes, mounts, sends>>

\* fetch resolves with a body; the backend writes the frames fs into it
FetchOk(fs) ==
    /\ pc = "fetch"
    /\ served' = fs
    /\ wire' = StreamBytes(fs)
    /\ decoder' = <<>>
    /\ buffer' = <<>>
    /\ opened' = messages
    /\ pc' = "read"
    /\ UNCHANGED <<storage, sessionId, messages, isLoading, now, aiId, request,
                   applied, before, atFailure, closed, writes, mounts, sends>>

\* reader.read() returns the next k bytes; the loop body runs on them
ReadChunk(k) ==
    /\ pc = "read"
    /\ k \in 1..Len(wire)
    /\ \E r \in {ReadStep(decoder, buffer, LoopState(messages, applied, FALSE),
                          aiId, SubSeq(wire, 1, k))} :
           /\ decoder' = r.decoder
           /\ buffer' = r.buffer
           /\ applied' = r.st.applied
           /\ IF r.st.threw
              THEN \E t \in Clock : Catch(r.st.messages, t, "frame")
              ELSE /\ messages' = r.st.messages
                   /\ UNCHANGED <<isLoading, now, pc, atFailure, closed>>
    /\ wire' = SubSeq(wire, k + 1, Len(wire))
    /\ UNCHANGED <<storage, sessionId, aiId, request, served, before, opened,
                   writes, mounts, sends>>

\* reader.read() returns done: break, then finally
ReadDone ==
    /\ pc = "read"
    /\ wire = <<>>
    /\ closed' = "end"
    /\ isLoading' = FALSE
    /\ pc' = "idle"
    /\ UNCHANGED <<storage, sessionId, messages, now, aiId, request, wire,
                   decoder, buffer, served, applied, before, opened, atFailure,
                   writes, mounts, sends>>

\* reader.read() rejects
ReadError(t) ==
    /\ pc = "read"
    /\ Catch(messages, t, "readfailed")
    /\ UNCHANGED <<storage, sessionId, aiId, request, wire, decoder, buffer,
                   served, applied, before, opened, writes, mounts, sends>>

Queries == {<<"q">>}
BlankQueries == {<<>>, <<" ", "\n">>}

\* The frames of the two explorations
TurnFrames == {TokA}
StreamFrames == {TokA, TokE, MetaS, FinalZ, BadTok, OpenTok}
TokenFrames == {TokA, TokE, FinalZ}

TurnBodies == Bodies(TurnFrames, MaxTurnFrames)
StreamBodies == Bodies(StreamFrames, MaxFrames) \cup Bodies(TokenFrames, MaxTokens)

\* The chat session: page loads, serialized sends, whole-body chunks
Next ==
    \/ \E h \in BOOLEAN, u \in UUIDs, r \in RandomOutcomes : Mount(h, u, r)
    \/ \E q \in BlankQueries : SendBlank(q)
    \/ \E q \in Queries, t1 \in 0..MaxClock, t2 \in 0..MaxClock : Send(q, t1, t2)
    \/ \E t \in 0..MaxClock : FetchReject(t)
    \/ \E t \in 0..MaxClock : FetchNoBody(t)
    \/ pc = "fetch" /\ \E fs \in TurnBodies : FetchOk(fs)
    \/ ReadChunk(Len(wire))
    \/ ReadDone
    \/ \E t \in 0..MaxClock : ReadError(t)

Spec == Init /\ [][Next]_vars

\* One response stream in detail: a mounted page at the latest clock reading,
\* one send, every body of StreamFrames, chunks of every size
InitStream ==
    /\ storage = JStr(<<"u", "u", "i", "d">>)
    /\ sessionId = JStr(<<"u", "u", "i", "d">>)
    /\ pc = "idle"
    /\ messages = <<>>
    /\ isLoading = FALSE
    /\ now = MaxClock
    /\ aiId = 0
    /\ request = NoRequest
    /\ wire = <<>>
    /\ decoder = <<>>
    /\ buffer = <<>>
    /\ served = <<>>
    /\ applied = <<>>
    /\ before = <<>>
    /\ opened = <<>>
    /\ atFailure = <<>>
    /\ closed = "none"
    /\ writes = 1
    /\ mounts = 1
    /\ sends = 0

NextStream ==
    \/ \E q \in BlankQueries : SendBlank(q)
    \/ \E q \in Queries : sends = 0 /\ Send(q, MaxClock, MaxClock)
    \/ FetchReject(MaxClock)
    \/ FetchNoBody(MaxClock)
    \/ pc = "fetch" /\ \E fs \in StreamBodies : FetchOk(fs)
    \/ \E k \in (1..MaxChunk) \cup {Len(wire)} : ReadChunk(k)
    \/ ReadDone
    \/ ReadError(MaxClock)

SpecStream == InitStream /\ [][NextStream]_vars

\* One response stream frame by frame: one send, every body of KindFrames,
\* each read returning the bytes up to the end of the next frame
KindFrames == {TokA, TokE, MetaS, MetaT, MetaNone, FinalZ, FinalYT, Ping,
               TokEmpty, FinalEmpty, EventTok, TokId}
KindBodies == Bodies(KindFrames, MaxKindFrames)

FrameChunk ==
    LET idx == IndexOf(wire, Boundary)
    IN  IF idx = -1 THEN Len(wire) ELSE idx + 2

NextFrames ==
    \/ \E q \in Queries : sends = 0 /\ Send(q, MaxClock, MaxClock)
    \/ pc = "fetch" /\ \E fs \in KindBodies : FetchOk(fs)
    \/ ReadChunk(FrameChunk)
    \/ ReadDone
    \/ ReadError(MaxClock)

SpecFrames == InitStream /\ [][NextFrames]_vars

\* The ways a send closes: fetch rejects, the response has no body, the
\* stream ends, a read rejects
Closes ==
    \/ FetchReject(MaxClock)
    \/ FetchNoBody(MaxClock)
    \/ ReadDone
    \/ ReadError(MaxClock)

\* Serialized sends on a mounted page, each answered by no frame or by one
\* frame of SessionFrames; every response ends or fails
SessionFrames == {TokA, MetaS, FinalZ}
SessionBodies == {<<>>} \cup {<<f>> : f \in SessionFrames}

NextLive ==
    \/ \E q \in BlankQueries : SendBlank(q)
    \/ \E q \in Queries : Send(q, MaxClock, MaxClock)
    \/ pc = "fetch" /\ \E fs \in SessionBodies : FetchOk(fs)
    \/ ReadChunk(Len(wire))
    \/ Closes

SpecLive == InitStream /\ [][NextLive]_vars /\ WF_vars(Closes)

---------------------------------------------------------------------------
(* Vocabulary of the properties *)

Last(q) == q[Len(q)]

TransportFailures == {"rejected", "nobody", "readfailed"}

\* A send has been made on this page: its user message and its placeholder
\* sit right after the transcript the send started from
UserIdx == Len(before) + 1
PlaceholderIdx == Len(before) + 2

\* The body is being read, or was read to its end
Streaming == pc = "read" \/ closed = "end"

\* The bytes of each frame of the explorations, and of a body of such
\* frames: StreamBytes(fs), put together frame by frame
Frames == TurnFrames \cup StreamFrames \cup KindFrames \cup SessionFrames
FrameBytes == [f \in Frames |-> StreamBytes(<<f>>)]

RECURSIVE BodyBytes(_)
BodyBytes(fs) ==
    IF fs = <<>> THEN <<>> ELSE FrameBytes[Head(fs)] \o BodyBytes(Tail(fs))

\* The bytes of the body the reader has returned so far
Consumed ==
    LET all == BodyBytes(served) IN SubSeq(all, 1, Len(all) - Len(wire))

\* The read loop run on bytes as one single chunk, from the moment the body
\* was opened
OneShot(bytes) ==
    ReadStep(<<>>, <<>>, LoopState(opened, <<>>, FALSE), aiId, bytes)

\* Number of leading frames of fs that fit whole in the first n bytes
RECURSIVE WholeFrames(_, _)
WholeFrames(fs, n) ==
    IF fs = <<>> THEN 0
    ELSE LET l == Len(FrameBytes[Head(fs)])
         IN  IF l <= n THEN 1 + WholeFrames(Tail(fs), n - l) ELSE 0

\* Number of frames of the body whose last byte has been returned
FramesConsumed == WholeFrames(served, Len(BodyBytes(served)) - Len(wire))

IsTokenFrame(f) ==
    /\ WellFormed(f) /\ f.before = <<>> /\ f.after = <<>>
    /\ IsStr(Get(f.evt, KType), TToken)
    /\ Get(f.evt, KContent).t = "string" /\ Get(f.evt, KContent).v # <<>>

RECURSIVE Contents(_)
Contents(fs) ==
    IF fs = <<>> THEN <<>>
    ELSE Get(Head(fs).evt, KContent).v \o Contents(Tail(fs))

Malformed(f) == f.cut > 0
Parses(f) == ~Malformed(f)

HasFinal(done) == \E i \in 1..Len(done) : done[i].op = "final"

---------------------------------------------------------------------------
(* C1: a body of token frames with non-empty contents c1..cn, read to its  *)
(* end, leaves the placeholder's text equal to c1 c2 ... cn, and the       *)
(* frames were dispatched one by one in the order the backend wrote them.  *)

C1_TokenConcatenation ==
    (closed = "end" /\ \A i \in 1..Len(served) : IsTokenFrame(served[i])) =>
        /\ messages[PlaceholderIdx].text = Contents(served)
        /\ Len(applied) = Len(served)
        /\ \A i \in 1..Len(applied) :
               applied[i].op = "token" /\ applied[i].evt = served[i].evt

C1_Witness ==
    /\ closed = "end"
    /\ Len(served) = 3
    /\ \A i \in 1..Len(served) : IsTokenFrame(served[i])
    /\ served[1] = TokA /\ served[2] = TokE /\ served[3] = TokA
    /\ messages[PlaceholderIdx].text = <<"a", EAcute, "a">>

(* C2: right after a final frame with a non-empty answer is processed, the *)
(* placeholder's text is that answer, whatever tokens came before.         *)

C2_FinalOverrides ==
    (Streaming /\ applied # <<>> /\ Last(applied).op = "final") =>
        messages[PlaceholderIdx].text = Get(Last(applied).evt, KAnswer).v

C2_Witness ==
    /\ Streaming
    /\ Len(applied) = 3
    /\ applied[1].op = "token" /\ applied[2].op = "token"
    /\ applied[3].op = "final"
    /\ messages[PlaceholderIdx].text = <<"z">>

(* C3: however the body is cut into chunks, the frames dispatched, the     *)
(* transcript, the buffer and the decoder state are those of reading the   *)
(* same bytes as one single chunk; the buffer holds what follows the last  *)
(* blank line and never a complete frame.                                  *)

C3_ChunkBoundaryInvariant ==
    Streaming =>
        \E r \in {OneShot(Consumed)} :
            /\ messages = r.st.messages
            /\ applied = r.st.applied
            /\ buffer = r.buffer
            /\ decoder = r.decoder
            /\ IndexOf(buffer, Boundary) = -1

C3_Witness ==
    /\ pc = "read"
    /\ decoder = <<LeadByte>>
    /\ buffer # <<>>
    /\ applied # <<>>
    /\ wire # <<>>

(* C4: a frame whose payload does not parse throws nothing out of the read *)
(* loop and changes no message: at every moment of the read the transcript *)
(* and the events dispatched are those of the same frames without the      *)
(* malformed ones.                                                         *)

C4_MalformedFrameDropped ==
    /\ closed # "frame"
    /\ Streaming =>
        \E r \in {OneShot(BodyBytes(
                       SelectSeq(SubSeq(served, 1, FramesConsumed), Parses)))} :
            /\ messages = r.st.messages
            /\ applied = r.st.applied

C4_Witness ==
    /\ closed = "end"
    /\ served = <<BadTok, TokE>>
    /\ messages[PlaceholderIdx].text = <<EAcute>>
    /\ Len(applied) = 1

(* C5: after a transport failure the transcript is the transcript at the   *)
(* moment of failure plus one assistant message with the error string; the *)
(* placeholder is still in its place, empty if no frame was applied, and   *)
(* otherwise as the frames applied so far left it.                         *)

C5_FailureAppendsOneMessage ==
    closed \in TransportFailures =>
        /\ Len(messages) = Len(atFailure) + 1
        /\ SubSeq(messages, 1, Len(atFailure)) = atFailure
        /\ Last(messages).role = "assistant"
        /\ Last(messages).text = ErrorText
        /\ Len(atFailure) = PlaceholderIdx
        /\ applied = <<>> => messages[PlaceholderIdx] = Placeholder(aiId)
        /\ closed = "readfailed" =>
               messages[PlaceholderIdx] = OneShot(Consumed).st.messages[PlaceholderIdx]

C5_Witness ==
    /\ closed = "readfailed"
    /\ messages[PlaceholderIdx].text = <<"a">>
    /\ messages[PlaceholderIdx].sources = JArr(<<JStr(<<"s">>)>>)
    /\ Len(messages) = PlaceholderIdx + 1

(* C6: once a final frame with an answer has been processed, no later      *)
(* frame of the same response changes the placeholder.                     *)

C6_FinalIsTerminal ==
    [][(pc = "read" /\ HasFinal(applied)) =>
           messages'[PlaceholderIdx] = messages[PlaceholderIdx]]_vars

(* C7: after the first page load the session id is a non-empty string, it  *)
(* is the string in storage, and storage was written exactly once.         *)

C7_SessionIdStable ==
    mounts > 0 =>
        /\ sessionId.t = "string" /\ sessionId.v # <<>>
        /\ storage = sessionId
        /\ writes = 1

(* C8: the ids of the messages of the transcript are pairwise distinct.    *)

C8_IdsDistinct ==
    \A i \in 1..Len(messages) : \A j \in 1..Len(messages) :
        i # j => messages[i].id # messages[j].id

(* C9: from the moment the request is issued, the transcript holds the     *)
(* user message of the send right after the earlier messages, immediately  *)
(* followed by the placeholder, which is empty when the request goes out.  *)

C9_PlaceholderBeforeRequest ==
    sends > 0 =>
        /\ Len(messages) >= PlaceholderIdx
        /\ messages[UserIdx].role = "user"
        /\ messages[UserIdx].text = request.query
        /\ messages[PlaceholderIdx].role = "assistant"
        /\ messages[PlaceholderIdx].id = aiId
        /\ pc = "fetch" => /\ messages[PlaceholderIdx] = Placeholder(aiId)
                           /\ Len(messages) = PlaceholderIdx

C9_Witness ==
    /\ pc = "fetch"
    /\ Len(before) = 3
    /\ messages[PlaceholderIdx] = Placeholder(aiId)
    /\ messages[UserIdx].role = "user"

(* C10: the messages field of the request is one {role, content} pair per  *)
(* message of the transcript at send time, in order, followed by the new   *)
(* user message; the new placeholder is not in it.                         *)

C10_HistoryIsWholeTranscript ==
    sends > 0 =>
        /\ Len(request.messages) = Len(before) + 1
        /\ \A i \in 1..Len(before) :
               request.messages[i] =
                   [role |-> before[i].role, content |-> before[i].text]
        /\ Last(request.messages) = [role |-> "user", content |-> request.query]

C10_Witness ==
    /\ pc = "fetch"
    /\ Len(before) = 3
    /\ before[2].role = "assistant" /\ before[2].text = <<"a">>
    /\ before[3].text = ErrorText
    /\ Len(request.messages) = 4

(* C11: while a response is read, a step changes no message of the        *)
(* transcript other than the placeholder of the request being read: the   *)
(* messages of earlier requests and the user message stay as they were.    *)

C11_OnlyPlaceholderChanges ==
    [][(pc = "read" /\ sends' = sends) =>
           \A i \in 1..Len(messages) :
               i # PlaceholderIdx => messages'[i] = messages[i]]_vars

\* The step dispatched exactly one event, of kind op
DispatchedOne(op) ==
    /\ pc = "read"
    /\ Len(applied') = Len(applied) + 1
    /\ Last(applied').op = op

(* C12: a step that dispatches a meta event with sources replaces the      *)
(* placeholder's sources by exactly the event's sources and changes        *)
(* nothing else, its text included; a step that dispatches a meta event    *)
(* without sources changes no message.                                     *)

C12_MetaReplacesSources ==
    [][DispatchedOne("meta") =>
           IF Truthy(Get(Last(applied').evt, KSources))
           THEN messages' = [messages EXCEPT ![PlaceholderIdx].sources =
                                                Get(Last(applied').evt, KSources)]
           ELSE messages' = messages]_vars

C12_Witness ==
    /\ Streaming
    /\ served = <<MetaS, MetaT>>
    /\ Len(applied) = 2
    /\ messages[PlaceholderIdx].sources = JArr(<<JStr(<<"t">>)>>)
    /\ messages[PlaceholderIdx].text = <<>>

(* C13: a step that dispatches a final event with an answer sets the       *)
(* placeholder's sources to the event's sources when the event has some,   *)
(* and otherwise leaves them as the earlier meta events (or the creation   *)
(* of the placeholder) left them.                                          *)

C13_FinalKeepsSources ==
    [][DispatchedOne("final") =>
           messages'[PlaceholderIdx].sources =
               IF Truthy(Get(Last(applied').evt, KSources))
               THEN Get(Last(applied').evt, KSources)
               ELSE messages[PlaceholderIdx].sources]_vars

C13_Witness ==
    /\ Streaming
    /\ served = <<MetaS, FinalZ>>
    /\ Len(applied) = 2
    /\ messages[PlaceholderIdx].sources = JArr(<<JStr(<<"s">>)>>)
    /\ messages[PlaceholderIdx].text = <<"z">>

\* The frame made of the data line of f alone
DataLineAlone(f) == [f EXCEPT !.before = <<>>, !.after = <<>>]

(* C14: the lines of a frame other than its data line are ignored: at      *)
(* every moment of the read the transcript and the events dispatched are   *)
(* those of the same frames reduced to their data lines.                   *)

C14_OtherLinesIgnored ==
    Streaming =>
        \E r \in {OneShot(StreamBytes(
                     [i \in 1..FramesConsumed |-> DataLineAlone(served[i])]))} :
            /\ messages = r.st.messages
            /\ applied = r.st.applied

\* A well-formed frame that matches no branch of the dispatch: a type other
\* than token, meta and final, a token without content, a final without answer
Inert(f) ==
    /\ WellFormed(f) /\ f.before = <<>> /\ f.after = <<>>
    /\ \/ ~ \/ IsStr(Get(f.evt, KType), TToken)
            \/ IsStr(Get(f.evt, KType), TMeta)
            \/ IsStr(Get(f.evt, KType), TFinal)
       \/ IsStr(Get(f.evt, KType), TToken) /\ ~Truthy(Get(f.evt, KContent))
       \/ IsStr(Get(f.evt, KType), TFinal) /\ ~Truthy(Get(f.evt, KAnswer))

Effective(f) == ~Inert(f)

\* The step reads the next frame of the body, whole
ReadsFrame ==
    /\ pc = "read"
    /\ FramesConsumed < Len(served)
    /\ Len(wire) - Len(wire') = Len(FrameBytes[served[FramesConsumed + 1]])

(* C15: a read step that takes a well-formed frame matching no branch of   *)
(* the dispatch changes no message, dispatches nothing and leaves the      *)
(* request open and loading; and at every moment of the read the           *)
(* transcript and the events dispatched are those of the same frames       *)
(* without such frames, so the frames after them are applied.              *)

C15_UnknownFrameIgnored ==
    /\ [][(ReadsFrame /\ buffer = <<>> /\ Inert(served[FramesConsumed + 1])) =>
              /\ messages' = messages
              /\ applied' = applied
              /\ pc' = "read" /\ closed' = "none" /\ isLoading']_vars
    /\ [](Streaming =>
            \E r \in {OneShot(BodyBytes(
                           SelectSeq(SubSeq(served, 1, FramesConsumed), Effective)))} :
                /\ messages = r.st.messages
                /\ applied = r.st.applied)

C15_Witness ==
    /\ closed = "end"
    /\ served = <<Ping, TokA>>
    /\ Len(applied) = 1
    /\ messages[PlaceholderIdx].text = <<"a">>

IsPrefix(p, s) == Len(p) <= Len(s) /\ SubSeq(s, 1, Len(p)) = p

(* C16: in every step of a request the placeholder's text after the step   *)
(* starts with its text before the step, unless the step dispatches a      *)
(* final event, and then the text is exactly the event's answer.           *)

C16_TextGrowsOrIsReplaced ==
    [][(sends > 0 /\ sends' = sends) =>
           \/ IsPrefix(messages[PlaceholderIdx].text, messages'[PlaceholderIdx].text)
           \/ /\ DispatchedOne("final")
              /\ messages'[PlaceholderIdx].text = Get(Last(applied').evt, KAnswer).v]_vars

C16_Witness ==
    /\ Streaming
    /\ served = <<TokA, FinalZ>>
    /\ Len(applied) = 2
    /\ messages[PlaceholderIdx].text = <<"z">>

(* C17: the loading flag is true exactly while a non-blank send is in      *)
(* flight, from its start to its close (a blank send starts nothing); it   *)
(* is false once the send has closed, however it closed; and when the      *)
(* awaited promises settle, a flag that is true becomes false again.       *)

C17_LoadingWhileInFlight ==
    /\ [](isLoading <=> pc \in {"fetch", "read"})
    /\ [](isLoading <=> (sends > 0 /\ closed = "none"))
    /\ [][isLoading' # isLoading =>
              IF isLoading' THEN sends' = sends + 1
              ELSE closed' \in TransportFailures \cup {"end", "frame"}]_vars
    /\ (isLoading ~> ~isLoading)

C17_Witness ==
    /\ closed = "nobody"
    /\ Len(before) = 2
    /\ Len(messages) = 5
    /\ ~isLoading

\* Number of frames of the body whose terminating blank line has been
\* returned: in a body only the last frame can lack it
TermConsumed ==
    IF FramesConsumed > 0 /\ ~served[FramesConsumed].term
    THEN FramesConsumed - 1
    ELSE FramesConsumed

(* C18: no more events are dispatched than frames whose terminating blank  *)
(* line has arrived; the end of the stream dispatches nothing and changes  *)
(* no message, whatever is left in the buffer; and a stream that ends      *)
(* without one complete frame leaves the placeholder as it was created,    *)
(* with no message after it.                                               *)

C18_UnterminatedFrameDiscarded ==
    /\ [](Streaming => Len(applied) <= TermConsumed)
    /\ [][(pc = "read" /\ closed' = "end") =>
              messages' = messages /\ applied' = applied]_vars
    /\ []((closed = "end" /\ TermConsumed = 0) =>
              /\ messages[PlaceholderIdx] = Placeholder(aiId)
              /\ Len(messages) = PlaceholderIdx)

C18_Witness ==
    /\ closed = "end"
    /\ served = <<OpenTok>>
    /\ buffer = FrameText(OpenTok)
    /\ applied = <<>>
    /\ messages[PlaceholderIdx] = Placeholder(aiId)
    /\ Len(messages) = PlaceholderIdx

\* The ids and roles of a transcript, in order
Skeleton(msgs) == [i \in 1..Len(msgs) |-> [id |-> msgs[i].id, role |-> msgs[i].role]]

(* C19: on a loaded page the transcript only grows at its end.  A step     *)
(* keeps the ids and roles of the messages it finds, in their order; a     *)
(* non-blank send adds a user message and an assistant placeholder; the    *)
(* close of a send adds one assistant message when the send failed and     *)
(* nothing when the stream ended; every other step keeps the length.       *)

C19_TranscriptAppendOnly ==
    /\ [][mounts' = mounts =>
              /\ IsPrefix(Skeleton(messages), Skeleton(messages'))
              /\ Len(messages') - Len(messages) =
                    IF sends' # sends THEN 2
                    ELSE IF closed = "none" /\ closed' \notin {"none", "end"} THEN 1
                    ELSE 0
              /\ sends' # sends =>
                    /\ messages'[Len(messages) + 1].role = "user"
                    /\ messages'[Len(messages) + 2].role = "assistant"
              /\ (closed = "none" /\ closed' \notin {"none", "end"}) =>
                    Last(messages').role = "assistant"]_vars
    /\ [](closed # "none" =>
              Len(messages) = Len(before) + 2 + (IF closed = "end" THEN 0 ELSE 1))

C19_Witness ==
    /\ closed = "end"
    /\ Len(before) = 3
    /\ Len(messages) = 5
    /\ applied # <<>> /\ Last(applied).op = "final"
    /\ before[3].text = ErrorText

====
